---------------------------- MODULE Spec2Model ----------------------------
(***************************************************************************)
(* Model of the Impuestito Discord bot: the per-user sliding-window rate   *)
(* limiter of bot.py (check_rate_limit, on_command, cleanup_tasks), the    *)
(* response cache of cogs/currency_commands.py, the bot-level api_cache    *)
(* (a cachetools TTLCache) and the cache_info report of                    *)
(* cogs/debug_commands.py.                                                 *)
(*                                                                         *)
(* Time is the wall clock (time.time() / datetime.now()) in whole seconds. *)
(***************************************************************************)
EXTENDS Integers, Sequences, FiniteSets, TLC

\* ------------------------------------------------------------------ bounds
MaxTime == 3          \* the clock advances in unit steps up to here
MaxWindow == 2        \* RATE_LIMIT_WINDOW is drawn from 1..MaxWindow
MaxLimit == 2         \* RATE_LIMIT_COMMANDS is drawn from 0..MaxLimit
MaxCommands == 3      \* command messages of a run (cap of commands_executed)
MaxLookups == 2       \* get_cached_data calls of a run (cap of hits + misses)
MaxCacheSize == 2     \* CACHE_MAXSIZE is drawn from 1..MaxCacheSize
MaxOverflow == 2      \* errors of a run beyond the capacity of the error log
Epoch == 1000         \* the clock reading when the bot is constructed

Users == {1, 2}       \* ctx.author.id

VARIABLES
    now,                  \* the wall clock
    program,              \* the bot that was started: bot.py or a single-file one
    startup,              \* the process that starts the bot: its environment and position
    rate_limit_commands,  \* config.rate_limit_commands
    rate_limit_window,    \* config.rate_limit_window
    rate_limits,          \* bot.rate_limits: user id -> list of timestamps
    stats,                \* bot.stats
    recent_errors,        \* bot.recent_errors, oldest first
    max_error_log,        \* bot.max_error_log
    inbound,              \* the message the framework is dispatching
    budget,               \* the number of command messages the run may receive
    cache_ttl,            \* config.cache_ttl
    cache_maxsize,        \* config.cache_maxsize
    oficial,              \* impuestito.main.oficial, bound when the cog is imported
    cached_data,          \* CurrencyCommands.cached_data: key -> <<cache_time, data>>
    last_api_call,        \* CurrencyCommands.last_api_call
    sleeping,             \* command invocations suspended in _rate_limit_api, each
                          \* told apart by the number of the miss it counted
    cooldowns,            \* the commands.cooldown buckets: <<command, user>> -> bucket
    sent,                 \* the last message a handler sent with ctx.send
    api_cache,            \* bot.api_cache: TTLCache entries, least recently used first
    got,                  \* what the last get_cached_data returned
    cogPuts,              \* history: per key, <<time, data>> of the last _set_cache
    apiPuts,              \* history: per key, the last set_cached_data and its eviction
    calls,                \* history: per user, <<time, result>> of each check_rate_limit
    solo,                 \* history: per user, a limiter that sees that user's calls only
    unswept               \* history: rate_limits as they are if cleanup_tasks never runs

vars == <<now, program, startup, unswept, rate_limit_commands, rate_limit_window, rate_limits, stats,
          recent_errors, max_error_log,
          inbound, budget, cache_ttl, cache_maxsize, oficial, cached_data, last_api_call,
          sleeping, cooldowns, sent, api_cache, got, cogPuts, apiPuts, calls, solo>>

configVars == <<rate_limit_commands, rate_limit_window, cache_ttl, cache_maxsize,
                max_error_log, oficial, budget, program, startup>>
settingsVars == <<rate_limit_commands, rate_limit_window, cache_ttl, cache_maxsize,
                  max_error_log, oficial, budget>>
limiterVars == <<rate_limits, calls, solo, unswept>>
cogVars == <<cached_data, last_api_call, sleeping, cogPuts>>
frameworkVars == <<cooldowns>>
apiVars == <<api_cache, got, apiPuts>>

\* ------------------------------------------------------------ rate limiter

\* bot.py:207 -- the filter of the list comprehension
InWindowLe(current_time, timestamp) ==
    current_time - timestamp <= rate_limit_window

InWindow(current_time, timestamp) ==
    current_time - timestamp < rate_limit_window

\* bot.py:205-208 -- the list comprehension: order kept, stale entries dropped
Pruned(timestamps, current_time) ==
    SelectSeq(timestamps, LAMBDA t : InWindow(current_time, t))

\* bot.py:201-202 -- a missing user gets an empty list
Entry(limits, user_id) ==
    IF user_id \in DOMAIN limits THEN limits[user_id] ELSE <<>>

\* a limit check that lets one event too many through
ThrottledOffByOne(kept) == Len(kept) > rate_limit_commands

\* bot.py:211 -- the user has exceeded the rate limit
Throttled(kept) == Len(kept) >= rate_limit_commands

\* a limiter that keeps one list for all users
RateLimitAllowedShared(limits, user_id, current_time) ==
    LET live == UNION {{<<u, i>> : i \in {j \in DOMAIN limits[u] :
                            InWindow(current_time, limits[u][j])}} :
                       u \in DOMAIN limits}
    IN  Cardinality(live) < rate_limit_commands

\* bot.py:211-216 -- the value check_rate_limit returns
RateLimitAllowed(limits, user_id, current_time) ==
    ~Throttled(Pruned(Entry(limits, user_id), current_time))

\* a limiter that puts the new timestamp in front
RateLimitsAfterPrepends(limits, user_id, current_time) ==
    LET kept == Pruned(Entry(limits, user_id), current_time)
        new  == IF Throttled(kept)
                THEN kept
                ELSE <<current_time>> \o kept
    IN  [u \in (DOMAIN limits) \cup {user_id} |->
            IF u = user_id THEN new ELSE limits[u]]

\* a limiter that records the attempt whether or not it is allowed
RateLimitsAfterAlwaysRecord(limits, user_id, current_time) ==
    LET kept == Pruned(Entry(limits, user_id), current_time)
    IN  [u \in (DOMAIN limits) \cup {user_id} |->
            IF u = user_id THEN Append(kept, current_time) ELSE limits[u]]

\* bot.py:197-216 -- bot.rate_limits after check_rate_limit(user_id)
RateLimitsAfter(limits, user_id, current_time) ==
    LET kept == Pruned(Entry(limits, user_id), current_time)
        new  == IF Throttled(kept)
                THEN kept
                ELSE Append(kept, current_time)
    IN  [u \in (DOMAIN limits) \cup {user_id} |->
            IF u = user_id THEN new ELSE limits[u]]

\* a sweep that deletes a caller as soon as one of its timestamps is stale
SweptDropsCallerWithStale(limits, current_time) ==
    LET keep == {u \in DOMAIN limits : Pruned(limits[u], current_time) = limits[u]
                                         /\ limits[u] # <<>>}
    IN  [u \in keep |-> limits[u]]

\* a sweep that prunes the lists and keeps the callers left without timestamps
SweptKeepsEmpty(limits, current_time) ==
    [u \in DOMAIN limits |-> Pruned(limits[u], current_time)]

\* a sweep that forgets every caller
SweptDropsAll(limits, current_time) == << >>

\* bot.py:348-354 -- the rate-limit part of cleanup_tasks
Swept(limits, current_time) ==
    LET keep == {u \in DOMAIN limits : Pruned(limits[u], current_time) # <<>>}
    IN  [u \in keep |-> Pruned(limits[u], current_time)]


\* ---------------------------------------------------- currency cog cache
api_cooldown == 30        \* currency_commands.py:28
cache_duration == 300     \* currency_commands.py:30

\* Python's None where an embed or a cached value is expected
NoEmbed == [title |-> "None"]

\* currency_commands.py:32-34 -- _get_cache_key: the command and str() of its
\* arguments joined by ":"; a command without arguments gives "<command>:"
GetCacheKey(command, args) == <<command>> \o args

\* a validity check that still accepts an entry exactly cache_duration old
IsCacheValidInclusive(cache, cache_key, t) ==
    /\ cache_key \in DOMAIN cache
    /\ t - cache[cache_key][1] <= cache_duration

\* currency_commands.py:36-42 -- _is_cache_valid
IsCacheValid(cache, cache_key, t) ==
    /\ cache_key \in DOMAIN cache
    /\ t - cache[cache_key][1] < cache_duration

\* a _set_cache that keeps the entry a key already has
SetCacheKeepFirst(cache, cache_key, data, t) ==
    IF cache_key \in DOMAIN cache THEN cache
    ELSE [k \in (DOMAIN cache) \cup {cache_key} |->
            IF k = cache_key THEN <<t, data>> ELSE cache[k]]

\* currency_commands.py:44-46 -- _set_cache
SetCache(cache, cache_key, data, t) ==
    [k \in (DOMAIN cache) \cup {cache_key} |->
        IF k = cache_key THEN <<t, data>> ELSE cache[k]]

\* a _get_cache that never finds anything
GetCacheAlwaysMiss(cache, cache_key, t) == NoEmbed

\* currency_commands.py:48-52 -- _get_cache
GetCache(cache, cache_key, t) ==
    IF IsCacheValid(cache, cache_key, t) THEN cache[cache_key][2] ELSE NoEmbed

\* currency_commands.py:75-85 -- _format_currency of the value num/den: "N/A" for
\* zero, else the value rounded to two decimals (kept in hundredths)
FormatCurrency(num, den) ==
    IF num = 0 THEN <<"N/A">>
    ELSE <<"$", (200 * num + den) \div (2 * den)>>

\* currency_commands.py:286-292, 346-352, 406-412 -- the amount a command accepts
MaxAmount(cmd) ==
    IF cmd = "pesos_dolar" THEN 1000000000 ELSE 1000000

RateCommands == {"oficial"}
ConvertCommands == {"dolar_pesos", "pesos_dolar"}
TaxCommands == {"impuesto_pais"}
AmountCommands == ConvertCommands \cup TaxCommands
CurrencyCommandNames == RateCommands \cup AmountCommands

\* the arguments that go into the cache key
KeyArgs(cmd, amount) == IF cmd \in AmountCommands THEN <<amount>> ELSE <<>>

\* a validation that turns away zero only
RejectedZeroOnly(cmd, amount) ==
    cmd \in AmountCommands /\ (amount = 0 \/ amount > MaxAmount(cmd))

\* currency_commands.py:286-292, 346-352, 406-412 -- the validation at the head
\* of a command with an amount
Rejected(cmd, amount) ==
    cmd \in AmountCommands /\ (amount <= 0 \/ amount > MaxAmount(cmd))

\* ------------------------------------------ impuestito.main (the library)
\* The package is imported, its code is not part of the sources: these
\* definitions follow the specification of calculateCountryTax.
TaxPercent == 30          \* the configured rate, 0.30

\* the precondition: a negative amount fails with InvalidAmount
CalcularImpuestoPaisRaises(cantidad) == cantidad < 0

\* the result, each quantity as <<numerator, denominator>>
CalcularImpuestoPais(cantidad) ==
    [cantidadVieja |-> <<cantidad, 1>>,
     agregado      |-> <<TaxPercent * cantidad, 100>>,
     cantidadFinal |-> <<100 * cantidad + TaxPercent * cantidad, 100>>]

\* what a call into the library may do besides what its specification says:
\* its code is not at hand, so it may also raise for a reason of its own
LibraryOutcomes(cmd) == IF cmd \in TaxCommands THEN BOOLEAN ELSE {FALSE}

\* currency_commands.py:426 -- cantidad_pesos / cotizacion raises
\* ZeroDivisionError; currency_commands.py:305 -- the library call raises
Raises(cmd, amount, fails) ==
    \/ cmd = "pesos_dolar" /\ oficial = 0
    \/ cmd \in TaxCommands /\ (fails \/ CalcularImpuestoPaisRaises(amount))

\* an embed that shows the final amount where the added tax belongs
BuildEmbedSwapsTax(cmd, amount, t) ==
    [title |-> cmd,
     fields |-> CASE cmd = "oficial" -> <<FormatCurrency(oficial, 1)>>
                  [] cmd = "dolar_pesos" ->
                        <<FormatCurrency(amount, 1), FormatCurrency(oficial, 1),
                          FormatCurrency(oficial * amount, 1)>>
                  [] cmd = "pesos_dolar" ->
                        <<FormatCurrency(amount, 1), FormatCurrency(oficial, 1),
                          FormatCurrency(amount, oficial)>>
                  [] cmd = "impuesto_pais" ->
                        <<FormatCurrency(amount, 1),
                          FormatCurrency(100 * amount + TaxPercent * amount, 100),
                          FormatCurrency(TaxPercent * amount, 100)>>,
     timestamp |-> t]

\* an embed whose USD->ARS result adds the rate instead of multiplying by it
BuildEmbedAddsRate(cmd, amount, t) ==
    [title |-> cmd,
     fields |-> CASE cmd = "oficial" -> <<FormatCurrency(oficial, 1)>>
                  [] cmd = "dolar_pesos" ->
                        <<FormatCurrency(amount, 1), FormatCurrency(oficial, 1),
                          FormatCurrency(oficial + amount, 1)>>
                  [] cmd = "pesos_dolar" ->
                        <<FormatCurrency(amount, 1), FormatCurrency(oficial, 1),
                          FormatCurrency(amount, oficial)>>
                  [] cmd = "impuesto_pais" ->
                        <<FormatCurrency(amount, 1),
                          FormatCurrency(TaxPercent * amount, 100),
                          FormatCurrency(100 * amount + TaxPercent * amount, 100)>>,
     timestamp |-> t]

\* currency_commands.py:172-178, 366-388, 426-448 -- the embed a command builds
\* from the rate it got and the time it is built at
BuildEmbed(cmd, amount, t) ==
    [title |-> cmd,
     fields |-> CASE cmd = "oficial" -> <<FormatCurrency(oficial, 1)>>
                  [] cmd = "dolar_pesos" ->
                        <<FormatCurrency(amount, 1), FormatCurrency(oficial, 1),
                          FormatCurrency(oficial * amount, 1)>>
                  [] cmd = "pesos_dolar" ->
                        <<FormatCurrency(amount, 1), FormatCurrency(oficial, 1),
                          FormatCurrency(amount, oficial)>>
                  [] cmd = "impuesto_pais" ->
                        LET resultado == CalcularImpuestoPais(amount)
                        IN  <<FormatCurrency(resultado.cantidadVieja[1],
                                             resultado.cantidadVieja[2]),
                              FormatCurrency(resultado.agregado[1],
                                             resultado.agregado[2]),
                              FormatCurrency(resultado.cantidadFinal[1],
                                             resultado.cantidadFinal[2])>>,
     timestamp |-> t]

\* debug_commands.py:413 -- strftime('%H:%M:%S') keeps the time of day only
TimeOfDay(t) == t % 86400

Max(S) == CHOOSE x \in S : \A y \in S : y <= x

\* debug_commands.py:368-427 -- what cache_info shows: the counters, the number
\* of entries of cached_data and the time of its newest entry
CacheInfoReport(cache, st) ==
    [title |-> "cache_info",
     hits |-> st.cache_hits,
     misses |-> st.cache_misses,
     entries |-> Cardinality(DOMAIN cache),
     newest |-> IF DOMAIN cache = {} THEN <<>>
                ELSE <<TimeOfDay(Max({cache[k][1] : k \in DOMAIN cache}))>>]

\* ------------------------------------------------- bot.api_cache (TTLCache)
DefaultCacheTtl == 300    \* bot.py:64

\* TTLCache.expire: drops the entries whose time is up
Expire(cache, t) == SelectSeq(cache, LAMBDA e : t < e.expires)

\* bot.py:220 -- key in self.api_cache: present and not expired
ApiContains(cache, key, t) ==
    \E i \in DOMAIN cache : cache[i].key = key /\ t < cache[i].expires

\* bot.py:222 -- self.api_cache[key]
ApiValue(cache, key) ==
    LET i == CHOOSE j \in DOMAIN cache : cache[j].key = key
    IN  cache[i].value

\* bot.py:222 -- reading a key makes it the most recently used one
ApiTouched(cache, key) ==
    SelectSeq(cache, LAMBDA e : e.key # key) \o SelectSeq(cache, LAMBDA e : e.key = key)

\* bot.py:218-225 -- the value get_cached_data returns
GetCachedDataValue(cache, key, t) ==
    IF ApiContains(cache, key, t) THEN ApiValue(cache, key) ELSE NoEmbed

\* bot.py:227-229 -- self.api_cache[key] = data: expired entries go, then the
\* least recently used ones until the new key fits, then the entry is stored
\* as the most recently used one with expires = now + ttl
ApiAfterSet(cache, key, data, t) ==
    LET live == Expire(cache, t)
        has  == \E i \in DOMAIN live : live[i].key = key
        drop == IF has \/ Len(live) + 1 <= cache_maxsize THEN 0
                ELSE Len(live) + 1 - cache_maxsize
        room == SubSeq(live, drop + 1, Len(live))
    IN  Append(SelectSeq(room, LAMBDA e : e.key # key),
               [key |-> key, value |-> data, expires |-> t + cache_ttl])

\* ------------------------------------------------------------ error log
default_max_error_log == 50   \* bot.py:119
error_retention == 86400      \* bot.py:357 -- timedelta(hours=24), in seconds

single_file_max_error_log == 10   \* discord_bot.py:47, discord_bot_modular.py:41

\* the programs that keep a log of recent errors
ErrorLogPrograms == {"bot.py", "discord_bot.py", "discord_bot_modular.py"}

\* bot.py:119, discord_bot.py:47 -- the capacity of the log of a program
MaxErrorLog(prog) ==
    IF prog \in {"discord_bot.py", "discord_bot_modular.py"}
    THEN single_file_max_error_log ELSE default_max_error_log

\* an add_error that turns the new error away when the log is full
AddErrorKeepsOldest(log, error_info) ==
    IF Len(log) + 1 > max_error_log
    THEN log
    ELSE Append(log, error_info)

\* bot.py:191-195 -- add_error
AddError(log, error_info) ==
    IF Len(log) + 1 > max_error_log
    THEN Tail(Append(log, error_info))
    ELSE Append(log, error_info)

\* ------------------------------------------------------ command cooldowns
\* currency_commands.py:158, 282, 342, 402 and debug_commands.py:312, 363 -- the
\* @commands.cooldown(rate, per, BucketType.user) of each command; ping has none
CooldownCommands == CurrencyCommandNames \cup {"cache_info", "rate_limits"}

CooldownRate(cmd) ==
    CASE cmd = "oficial" -> 2
      [] cmd \in AmountCommands -> 3
      [] cmd = "cache_info" -> 1
      [] cmd = "rate_limits" -> 1

CooldownPer(cmd) ==
    CASE cmd = "oficial" -> 60
      [] cmd \in AmountCommands -> 60
      [] cmd = "cache_info" -> 30
      [] cmd = "rate_limits" -> 60

\* a bucket starts full, with its window at 0
Bucket(cd, cmd, u) ==
    IF <<cmd, u>> \in DOMAIN cd THEN cd[<<cmd, u>>]
    ELSE [window |-> 0, tokens |-> CooldownRate(cmd)]

\* the tokens a bucket has at t: it is refilled once its window is over
Tokens(cd, cmd, u, t) ==
    IF t > Bucket(cd, cmd, u).window + CooldownPer(cmd)
    THEN CooldownRate(cmd)
    ELSE Bucket(cd, cmd, u).tokens

\* the invocation raises CommandOnCooldown
OnCooldown(cd, cmd, u, t) ==
    cmd \in CooldownCommands /\ Tokens(cd, cmd, u, t) = 0

\* the buckets after an invocation that is let through: a full bucket opens a
\* new window at t, and one token is taken
CooldownsAfter(cd, cmd, u, t) ==
    IF cmd \notin CooldownCommands THEN cd
    ELSE LET b == [window |-> IF Tokens(cd, cmd, u, t) = CooldownRate(cmd)
                              THEN t ELSE Bucket(cd, cmd, u).window,
                   tokens |-> Tokens(cd, cmd, u, t) - 1]
         IN  [k \in (DOMAIN cd) \cup {<<cmd, u>>} |->
                 IF k = <<cmd, u>> THEN b ELSE cd[k]]

\* -------------------------------------------------------------- startup
\* start.py:24-31 -- required_packages, and what bot.py imports besides
RequiredPackages == {"discord", "impuestito", "dotenv", "aiohttp", "cachetools", "psutil"}
Packages == RequiredPackages \cup {"aioredis"}

\* bot.py:28-33, cogs; discord_bot.py:17-21; discord_bot_modular.py:16-18 -- the
\* third-party imports of a bot
BotImports(prog) ==
    CASE prog = "bot.py" ->
            {"discord", "dotenv", "aiohttp", "aioredis", "cachetools"}
      [] prog = "discord_bot.py" -> {"discord", "dotenv", "impuestito"}
      [] prog = "discord_bot_modular.py" -> {"discord", "dotenv"}

\* the scripts a user runs, and the bots among them
DiscordBots == {"bot.py", "discord_bot.py", "discord_bot_modular.py"}
Scripts == {"start.py"} \cup DiscordBots

\* os.getenv('DISCORD_BOT_TOKEN'): None, the empty string, or a token
TokenValues == {"unset", "empty", "set"}

\* the machine a script runs on
Environments ==
    [python_ok : BOOLEAN, missing : SUBSET Packages, env_file : BOOLEAN,
     token : TokenValues, bot_file : BOOLEAN]

\* start.py:13-20 -- check_python_version
check_python_version(env) == IF env.python_ok THEN "pass" ELSE "fail"

\* start.py:22-48 -- check_dependencies
check_dependencies(env) ==
    IF env.missing \cap RequiredPackages = {} THEN "pass" ELSE "fail"

\* start.py:50-78 -- check_env_file: without .env it fails; else it imports
\* dotenv (ImportError when the package is missing) and looks for the token
check_env_file(env) ==
    IF ~env.env_file THEN "fail"
    ELSE IF "dotenv" \in env.missing THEN "raise"
    ELSE IF env.token # "set" THEN "fail"
    ELSE "pass"

\* start.py:80-90 -- check_bot_file
check_bot_file(env) == IF env.bot_file THEN "pass" ELSE "fail"

\* start.py:98-103 -- checks, in the order main runs them
checks == <<"check_python_version", "check_dependencies", "check_env_file",
            "check_bot_file">>

CheckResult(name, env) ==
    CASE name = "check_python_version" -> check_python_version(env)
      [] name = "check_dependencies" -> check_dependencies(env)
      [] name = "check_env_file" -> check_env_file(env)
      [] name = "check_bot_file" -> check_bot_file(env)

\* a script is started on a machine
Starting(script, env) ==
    [script |-> script, env |-> env,
     pc |-> IF script = "start.py" THEN "check" ELSE "bot_load",
     all_passed |-> TRUE, checks_run |-> <<>>, exit_status |-> -1,
     launched |-> FALSE]

\* the bot is up: what startup is once bot.run was called
Started(prog) ==
    [script |-> prog,
     env |-> [python_ok |-> TRUE, missing |-> {}, env_file |-> TRUE,
              token |-> "set", bot_file |-> TRUE],
     pc |-> "running", all_passed |-> TRUE, checks_run |-> <<>>,
     exit_status |-> -1, launched |-> FALSE]

\* start.py:105-110 -- one turn of the loop over checks: the check runs, a
\* failure clears all_passed and the loop goes on; an exception of the check is
\* not caught, the interpreter ends with status 1
RunCheckOutcome(name, result) ==
    IF result = "raise"
    THEN [startup EXCEPT !.pc = "exited", !.exit_status = 1]
    ELSE [startup EXCEPT
             !.checks_run = Append(@, name),
             !.all_passed = @ /\ result = "pass",
             !.pc = IF Len(startup.checks_run) + 1 = Len(checks)
                    THEN "decide" ELSE "check"]

RunCheck ==
    /\ startup.script = "start.py"
    /\ startup.pc = "check"
    /\ LET name == checks[Len(startup.checks_run) + 1]
       IN  startup' = RunCheckOutcome(name, CheckResult(name, startup.env))
    /\ UNCHANGED <<now, settingsVars, program, recent_errors, limiterVars, cogVars,
                   frameworkVars, apiVars, stats, inbound, sent>>

\* start.py:112-122 -- after the loop: sys.exit(1) unless every check passed,
\* else bot.py is launched as a subprocess
StartDecide ==
    /\ startup.script = "start.py"
    /\ startup.pc = "decide"
    /\ startup' = IF ~startup.all_passed
                  THEN [startup EXCEPT !.pc = "exited", !.exit_status = 1]
                  ELSE [startup EXCEPT !.pc = "bot_load", !.launched = TRUE]
    /\ UNCHANGED <<now, settingsVars, program, recent_errors, limiterVars, cogVars,
                   frameworkVars, apiVars, stats, inbound, sent>>

\* the bot the process runs: bot.py under start.py, else the script itself
BotOf(st) == IF st.script = "start.py" THEN "bot.py" ELSE st.script

\* bot.py:18-36 -- the module is loaded: a missing package ends the process
BotLoad ==
    /\ startup.pc = "bot_load"
    /\ startup' = IF startup.env.missing \cap BotImports(BotOf(startup)) # {}
                  THEN [startup EXCEPT !.pc = "exited", !.exit_status = 1]
                  ELSE [startup EXCEPT !.pc = "bot_main"]
    /\ UNCHANGED <<now, settingsVars, program, recent_errors, limiterVars, cogVars,
                   frameworkVars, apiVars, stats, inbound, sent>>

\* bot.py:662-675, discord_bot.py:440-452, discord_bot_modular.py:263-278 -- main:
\* without a token it returns, else it calls bot.run
BotMainOutcome(token) == IF token # "set" THEN "returned" ELSE "running"

BotMain ==
    /\ startup.pc = "bot_main"
    /\ startup' = [startup EXCEPT !.pc = BotMainOutcome(startup.env.token),
                                  !.exit_status =
                                      IF BotMainOutcome(startup.env.token) = "returned"
                                      THEN 0 ELSE @]
    /\ program' = IF BotMainOutcome(startup.env.token) = "running"
                  THEN BotOf(startup) ELSE program
    /\ UNCHANGED <<now, settingsVars, recent_errors, limiterVars, cogVars,
                   frameworkVars, apiVars, stats, inbound, sent>>

\* ------------------------------------------------------------- messages
\* The framework handles one message at a time up to the first suspension of
\* its handlers: it dispatches the "command" event (on_command) and invokes the
\* command callback.  on_command returns None on both of its paths, so nothing
\* it decides reaches the invocation of the callback.
NoMessage ==
    [user |-> 0, cmd |-> "none", amount |-> 0,
     gate |-> "none", soloGate |-> "none", body |-> "none", throttleMsg |-> FALSE]

\* nothing sent yet
NoMessageSent ==
    [user |-> 0, kind |-> "none", embed |-> NoEmbed, hit |-> FALSE, stored_at |-> 0,
     request |-> <<>>]

GateOf(allowed) == IF allowed THEN "allowed" ELSE "throttled"

\* bot.py:96-130 -- ImpuestitoBot.__init__
InitBot ==
    /\ rate_limits = << >>
    /\ recent_errors = << >>
    /\ max_error_log = MaxErrorLog(program)
    /\ cached_data = << >>
    /\ last_api_call = 0
    /\ sleeping = {}
    /\ cooldowns = << >>
    /\ sent = NoMessageSent
    /\ api_cache = << >>
    /\ got = NoEmbed
    /\ cogPuts = << >>
    /\ apiPuts = << >>
    /\ stats = [commands_executed |-> 0, errors_occurred |-> 0, api_calls |-> 0,
                cache_hits |-> 0, cache_misses |-> 0]
    /\ inbound = NoMessage
    /\ calls = [u \in Users |-> <<>>]
    /\ solo = [u \in Users |-> << >>]
    /\ unswept = << >>

\* bot.py:59-65 -- BotConfig reads the limits from the environment
InitLimiter ==
    /\ now = Epoch
    /\ rate_limit_commands \in 0..MaxLimit
    /\ rate_limit_window \in 1..MaxWindow
    /\ cache_ttl = DefaultCacheTtl
    /\ cache_maxsize = MaxCacheSize
    /\ oficial = 900
    /\ budget = MaxCommands
    /\ program = "bot.py"
    /\ startup = Started(program)
    /\ InitBot

\* time.time() / datetime.now() move on by one second
Tick ==
    /\ now < Epoch + MaxTime
    /\ now' = now + 1
    /\ UNCHANGED <<configVars, recent_errors, limiterVars, cogVars, frameworkVars,
                   apiVars, stats, inbound, sent>>

\* a user sends a command message
Receive(u, cmd, amount) ==
    /\ inbound.gate # "pending"
    /\ inbound.body # "pending"
    /\ stats.commands_executed < budget
    /\ inbound' = [NoMessage EXCEPT !.user = u, !.cmd = cmd, !.amount = amount,
                                     !.gate = "pending", !.soloGate = "pending",
                                     !.body = "pending"]
    /\ UNCHANGED <<now, configVars, recent_errors, limiterVars, cogVars, frameworkVars,
                   apiVars, stats, sent>>

\* bot.py:260-277 -- on_command
OnCommand ==
    /\ inbound.gate = "pending"
    /\ LET u  == inbound.user
           ok == RateLimitAllowed(rate_limits, u, now)
       IN  /\ stats' = [stats EXCEPT !.commands_executed = @ + 1]
           /\ rate_limits' = RateLimitsAfter(rate_limits, u, now)
           /\ inbound' = [inbound EXCEPT
                             !.gate = GateOf(ok),
                             !.soloGate = GateOf(RateLimitAllowed(solo[u], u, now)),
                             !.throttleMsg = ~ok]
           /\ calls' = [calls EXCEPT ![u] = Append(@, <<now, ok>>)]
           /\ solo' = [solo EXCEPT ![u] = RateLimitsAfter(@, u, now)]
           /\ unswept' = RateLimitsAfter(unswept, u, now)
           /\ sent' = IF ok THEN sent
                      ELSE [NoMessageSent EXCEPT !.user = u, !.kind = "throttled"]
    /\ UNCHANGED <<now, configVars, recent_errors, cogVars, frameworkVars, apiVars>>

\* bot.py:541-552 -- ping_command: builds an embed and sends it
PingCommand ==
    /\ inbound.body = "pending"
    /\ inbound.cmd = "ping"
    /\ inbound' = [inbound EXCEPT !.body = "ran"]
    /\ sent' = [NoMessageSent EXCEPT !.user = inbound.user, !.kind = "pong"]
    /\ UNCHANGED <<now, configVars, recent_errors, limiterVars, cogVars, frameworkVars,
                   apiVars, stats>>

\* bot.py:356-361 -- the error-log part of cleanup_tasks
SweptErrors(log, current_time) ==
    SelectSeq(log, LAMBDA e : e.timestamp > current_time - error_retention)

\* bot.py:341-366 -- cleanup_tasks (hourly loop)
Cleanup ==
    /\ rate_limits' = Swept(rate_limits, now)
    /\ solo' = [u \in Users |-> Swept(solo[u], now)]
    /\ recent_errors' = SweptErrors(recent_errors, now)
    /\ UNCHANGED <<now, configVars, cogVars, frameworkVars, apiVars, stats, inbound,
                   sent, calls, unswept>>

\* history bookkeeping: the last value stored under a key and when
Recorded(history, key, entry) ==
    [k \in (DOMAIN history) \cup {key} |-> IF k = key THEN entry ELSE history[k]]

\* ------------------------------------------------------ currency commands
\* a command that stores its embed first and looks at the outcome afterwards
FinishCallCachesOnError(u, cmd, amount, current_time) ==
    LET key == GetCacheKey(cmd, KeyArgs(cmd, amount))
        failed == [title |-> cmd, fields |-> <<<<"N/A">>>>, timestamp |-> now]
    IN  /\ last_api_call' = current_time
        /\ \E fails \in LibraryOutcomes(cmd) :
             IF Raises(cmd, amount, fails)
             THEN /\ sent' = [NoMessageSent EXCEPT !.user = u, !.kind = "error"]
                  /\ cached_data' = SetCache(cached_data, key, failed, now)
                  /\ UNCHANGED cogPuts
             ELSE /\ cached_data' = SetCache(cached_data, key,
                                             BuildEmbed(cmd, amount, now), now)
                  /\ cogPuts' = Recorded(cogPuts, key,
                                         <<now, BuildEmbed(cmd, amount, now)>>)
                  /\ sent' = [NoMessageSent EXCEPT
                                 !.user = u, !.kind = "embed",
                                 !.embed = BuildEmbed(cmd, amount, now)]

\* a command whose except branch does not return: an embed goes out all the same
FinishCallSendsAnyway(u, cmd, amount, current_time) ==
    LET key == GetCacheKey(cmd, KeyArgs(cmd, amount))
        empty == [title |-> cmd, fields |-> <<<<"N/A">>>>, timestamp |-> now]
    IN  /\ last_api_call' = current_time
        /\ \E fails \in LibraryOutcomes(cmd) :
             IF Raises(cmd, amount, fails)
             THEN /\ sent' = [NoMessageSent EXCEPT !.user = u, !.kind = "embed",
                                                   !.embed = empty]
                  /\ UNCHANGED <<cached_data, cogPuts>>
             ELSE /\ cached_data' = SetCache(cached_data, key,
                                             BuildEmbed(cmd, amount, now), now)
                  /\ cogPuts' = Recorded(cogPuts, key,
                                         <<now, BuildEmbed(cmd, amount, now)>>)
                  /\ sent' = [NoMessageSent EXCEPT
                                 !.user = u, !.kind = "embed",
                                 !.embed = BuildEmbed(cmd, amount, now)]

\* currency_commands.py:65-73 and the rest of the try block of a command, from
\* the moment _rate_limit_api lets the call through: last_api_call is set to the
\* time read before the wait, api_calls is counted, the value is taken, the embed
\* is built and cached and sent; an exception sends the error message instead
FinishCall(u, cmd, amount, current_time) ==
    LET key   == GetCacheKey(cmd, KeyArgs(cmd, amount))
        embed == BuildEmbed(cmd, amount, now)
    IN  /\ last_api_call' = current_time
        /\ \E fails \in LibraryOutcomes(cmd) :
             IF Raises(cmd, amount, fails)
             THEN /\ sent' = [NoMessageSent EXCEPT !.user = u, !.kind = "error"]
                  /\ UNCHANGED <<cached_data, cogPuts>>
             ELSE /\ cached_data' = SetCache(cached_data, key, embed, now)
                  /\ cogPuts' = Recorded(cogPuts, key, <<now, embed>>)
                  /\ sent' = [NoMessageSent EXCEPT !.user = u, !.kind = "embed",
                                                   !.embed = embed]

\* currency_commands.py:157-186, 341-399, 401-459 -- oficial_command,
\* dolar_pesos_command, pesos_dolar_command up to their first suspension
CurrencyCommand ==
    /\ inbound.body = "pending"
    /\ inbound.cmd \in CurrencyCommandNames
    /\ ~OnCooldown(cooldowns, inbound.cmd, inbound.user, now)
    /\ cooldowns' = CooldownsAfter(cooldowns, inbound.cmd, inbound.user, now)
    /\ LET u      == inbound.user
           cmd    == inbound.cmd
           amount == inbound.amount
           key    == GetCacheKey(cmd, KeyArgs(cmd, amount))
           cached == GetCache(cached_data, key, now)
           since  == now - last_api_call
       IN  IF Rejected(cmd, amount)
           THEN \* the validation message, nothing else
                /\ inbound' = [inbound EXCEPT !.body = "rejected"]
                /\ sent' = [NoMessageSent EXCEPT !.user = u, !.kind = "invalid"]
                /\ UNCHANGED <<stats, cogVars>>
           ELSE IF cached # NoEmbed
           THEN \* cache hit
                /\ inbound' = [inbound EXCEPT !.body = "hit"]
                /\ stats' = [stats EXCEPT !.cache_hits = @ + 1]
                /\ sent' = [NoMessageSent EXCEPT
                               !.user = u, !.kind = "embed", !.embed = cached,
                               !.hit = TRUE, !.stored_at = cached_data[key][1]]
                /\ UNCHANGED cogVars
           ELSE IF since < api_cooldown
           THEN \* cache miss, and _rate_limit_api sleeps
                /\ inbound' = [inbound EXCEPT !.body = "waiting"]
                /\ stats' = [stats EXCEPT !.cache_misses = @ + 1]
                /\ sleeping' = sleeping \cup
                       {[user |-> u, cmd |-> cmd, amount |-> amount,
                         current_time |-> now, wake |-> now + (api_cooldown - since),
                         miss |-> stats.cache_misses + 1]}
                /\ UNCHANGED <<sent, cached_data, last_api_call, cogPuts>>
           ELSE \* cache miss, and the call goes through at once
                /\ inbound' = [inbound EXCEPT !.body = "miss"]
                /\ stats' = [stats EXCEPT !.cache_misses = @ + 1, !.api_calls = @ + 1]
                /\ FinishCall(u, cmd, amount, now)
                /\ UNCHANGED sleeping
    /\ UNCHANGED <<now, configVars, recent_errors, limiterVars, apiVars>>

\* a command that counts its miss once more when its wait is over
ResumeCountsMissAgain(task) ==
    /\ task \in sleeping
    /\ now >= task.wake
    /\ sleeping' = sleeping \ {task}
    /\ stats' = [stats EXCEPT !.api_calls = @ + 1, !.cache_misses = @ + 1]
    /\ FinishCall(task.user, task.cmd, task.amount, task.current_time)
    /\ UNCHANGED <<now, configVars, recent_errors, limiterVars, frameworkVars, apiVars, inbound>>

\* currency_commands.py:61-63 -- asyncio.sleep returns and the command goes on
Resume(task) ==
    /\ task \in sleeping
    /\ now >= task.wake
    /\ sleeping' = sleeping \ {task}
    /\ stats' = [stats EXCEPT !.api_calls = @ + 1]
    /\ FinishCall(task.user, task.cmd, task.amount, task.current_time)
    /\ UNCHANGED <<now, configVars, recent_errors, limiterVars, frameworkVars, apiVars, inbound>>

\* debug_commands.py:362-431 -- cache_info_command
CacheInfoCommand ==
    /\ inbound.body = "pending"
    /\ inbound.cmd = "cache_info"
    /\ ~OnCooldown(cooldowns, inbound.cmd, inbound.user, now)
    /\ cooldowns' = CooldownsAfter(cooldowns, inbound.cmd, inbound.user, now)
    /\ inbound' = [inbound EXCEPT !.body = "ran"]
    /\ sent' = [NoMessageSent EXCEPT !.user = inbound.user, !.kind = "cache_info",
                                     !.embed = CacheInfoReport(cached_data, stats)]
    /\ UNCHANGED <<now, configVars, recent_errors, limiterVars, cogVars, apiVars, stats>>

\* debug_commands.py:338 -- the report shows the ten longest lists
reported_users == 10

\* debug_commands.py:333-338 -- the callers the report shows: those with the
\* most timestamps (sorted() leaves callers with equally many in the order of
\* the dict; any choice among them is as good here)
ReportedCallers(limits) ==
    IF Cardinality(DOMAIN limits) <= reported_users THEN DOMAIN limits
    ELSE CHOOSE S \in SUBSET DOMAIN limits :
            /\ Cardinality(S) = reported_users
            /\ \A a \in S, b \in (DOMAIN limits) \ S : Len(limits[a]) >= Len(limits[b])

\* debug_commands.py:340-352 -- timestamps[-1] of an empty list raises IndexError
RateLimitsReportRaises(limits) ==
    \E u \in ReportedCallers(limits) : limits[u] = <<>>

\* debug_commands.py:315-354 -- what rate_limits shows: nothing active for an
\* empty dict, else the number of callers and, per caller shown, the length of
\* its list and the time of day of its last timestamp
RateLimitsReport(limits) ==
    IF DOMAIN limits = {}
    THEN [title |-> "no_rate_limits"]
    ELSE [title |-> "rate_limits",
          users |-> Cardinality(DOMAIN limits),
          fields |-> [u \in ReportedCallers(limits) |->
                        <<Len(limits[u]), TimeOfDay(limits[u][Len(limits[u])])>>]]

\* debug_commands.py:311-360 -- rate_limits_command
RateLimitsCommand ==
    /\ inbound.body = "pending"
    /\ inbound.cmd = "rate_limits"
    /\ ~OnCooldown(cooldowns, inbound.cmd, inbound.user, now)
    /\ cooldowns' = CooldownsAfter(cooldowns, inbound.cmd, inbound.user, now)
    /\ inbound' = [inbound EXCEPT !.body = "ran"]
    /\ sent' = IF RateLimitsReportRaises(rate_limits)
               THEN [NoMessageSent EXCEPT !.user = inbound.user, !.kind = "error"]
               ELSE [NoMessageSent EXCEPT !.user = inbound.user,
                                          !.kind = "rate_limits",
                                          !.embed = RateLimitsReport(rate_limits)]
    /\ UNCHANGED <<now, configVars, recent_errors, limiterVars, cogVars, apiVars,
                   stats>>

\* currency_commands.py:532-546, debug_commands.py:536-548 and bot.py:279-321 --
\* the invocation raises CommandOnCooldown before the callback is entered: the
\* cog's error handler and on_command_error both answer, and the error is counted
CommandOnCooldown ==
    /\ inbound.body = "pending"
    /\ OnCooldown(cooldowns, inbound.cmd, inbound.user, now)
    /\ inbound' = [inbound EXCEPT !.body = "cooldown"]
    /\ stats' = [stats EXCEPT !.errors_occurred = @ + 1]
    /\ recent_errors' = AddError(recent_errors,
                           [timestamp |-> now, command |-> inbound.cmd,
                            user_id |-> inbound.user,
                            error_type |-> "CommandOnCooldown"])
    /\ sent' = [NoMessageSent EXCEPT !.user = inbound.user, !.kind = "cooldown"]
    /\ UNCHANGED <<now, configVars, limiterVars, cogVars, frameworkVars, apiVars>>

\* bot.py:279-335, discord_bot.py:86-121 -- on_command_error for a message that
\* names no command: the framework raises CommandNotFound before on_command is
\* dispatched; the error is counted, logged and answered
UnknownCommand(u) ==
    /\ program \in ErrorLogPrograms
    /\ startup = Started(program)
    /\ stats.errors_occurred < max_error_log + MaxOverflow
    /\ stats' = [stats EXCEPT !.errors_occurred = @ + 1]
    /\ recent_errors' = AddError(recent_errors,
                           [timestamp |-> now, command |-> "Unknown",
                            user_id |-> u, error_type |-> "CommandNotFound"])
    /\ sent' = [NoMessageSent EXCEPT !.user = u, !.kind = "not_found"]
    /\ UNCHANGED <<now, configVars, limiterVars, cogVars, frameworkVars, apiVars,
                   inbound>>

\* ------------------------------------------------------ cache operations
CacheKeys == {<<"k1">>, <<"k2">>}
CacheData == {[title |-> "v1"], [title |-> "v2"]}

\* currency_commands.py:44-46 -- a call of _set_cache
CallSetCache(key, data) ==
    /\ cached_data' = SetCache(cached_data, key, data, now)
    /\ cogPuts' = Recorded(cogPuts, key, <<now, data>>)
    /\ UNCHANGED <<now, configVars, recent_errors, limiterVars, frameworkVars, apiVars, stats,
                   inbound, sent, last_api_call, sleeping>>

\* currency_commands.py:48-52 -- a call of _get_cache
CallGetCache(key) ==
    /\ got' = GetCache(cached_data, key, now)
    /\ UNCHANGED <<now, configVars, recent_errors, limiterVars, cogVars, frameworkVars, api_cache,
                   apiPuts, stats, inbound, sent>>

\* bot.py:227-229 -- set_cached_data
SetCachedData(key, data) ==
    /\ api_cache' = ApiAfterSet(api_cache, key, data, now)
    /\ apiPuts' =
         [k \in (DOMAIN apiPuts) \cup {key} |->
            IF k = key THEN [time |-> now, value |-> data, evicted |-> FALSE]
            ELSE [apiPuts[k] EXCEPT !.evicted =
                     \/ @
                     \/ /\ ApiContains(api_cache, k, now)
                        /\ ~ApiContains(api_cache', k, now)]]
    /\ UNCHANGED <<now, configVars, recent_errors, limiterVars, cogVars, frameworkVars, got, stats,
                   inbound, sent>>

\* bot.py:218-225 -- get_cached_data
GetCachedData(key) ==
    /\ stats.cache_hits + stats.cache_misses < MaxLookups
    /\ got' = GetCachedDataValue(api_cache, key, now)
    /\ IF ApiContains(api_cache, key, now)
       THEN /\ stats' = [stats EXCEPT !.cache_hits = @ + 1]
            /\ api_cache' = ApiTouched(api_cache, key)
       ELSE /\ stats' = [stats EXCEPT !.cache_misses = @ + 1]
            /\ UNCHANGED api_cache
    /\ UNCHANGED <<now, configVars, recent_errors, limiterVars, cogVars, frameworkVars, apiPuts,
                   inbound, sent>>

NextLimiter ==
    \/ Tick
    \/ \E u \in Users : Receive(u, "ping", 0)
    \/ OnCommand
    \/ PingCommand
    \/ Cleanup

SpecLimiter == InitLimiter /\ [][NextLimiter]_vars

\* ------------------------------------- the limiter and the report of its lists
NextReports ==
    \/ Tick
    \/ \E u \in Users : Receive(u, "ping", 0)
    \/ \E u \in Users : Receive(u, "rate_limits", 0)
    \/ OnCommand
    \/ PingCommand
    \/ RateLimitsCommand
    \/ CommandOnCooldown
    \/ Cleanup

SpecReports == InitLimiter /\ [][NextReports]_vars

\* ------------------------------------------------- the spec's end-to-end scenario
\* maxEvents = 3, windowSeconds = 60, and the clock read at these times.
ScenarioTimes == {0, 1, 2, 3, 59, 60, 61, 62}

\* the calls of the scenario and what the spec says they return
ScenarioCalls == << <<0, TRUE>>, <<1, TRUE>>, <<2, TRUE>>, <<3, FALSE>>, <<61, TRUE>> >>

InitScenario ==
    /\ now = 0
    /\ rate_limit_commands = 3
    /\ rate_limit_window = 60
    /\ cache_ttl = DefaultCacheTtl
    /\ cache_maxsize = MaxCacheSize
    /\ oficial = 900
    /\ budget = Len(ScenarioCalls)
    /\ program = "bot.py"
    /\ startup = Started(program)
    /\ InitBot

\* the clock moves on to a later reading
JumpTo(t) ==
    /\ t > now
    /\ now' = t
    /\ UNCHANGED <<configVars, recent_errors, limiterVars, cogVars, frameworkVars,
                   apiVars, stats, inbound, sent>>

NextScenario ==
    \/ \E t \in ScenarioTimes : JumpTo(t)
    \/ \E u \in Users : Receive(u, "ping", 0)
    \/ OnCommand
    \/ PingCommand
    \/ Cleanup

SpecScenario == InitScenario /\ [][NextScenario]_vars

\* ------------------------------------------ the sweep over hours and days
\* the clock readings of a run in which errors get older than the retention
SweepTimes == {Epoch + MaxWindow, Epoch + error_retention,
               Epoch + error_retention + 1}

InitSweep ==
    /\ now = Epoch
    /\ rate_limit_commands = MaxLimit
    /\ rate_limit_window = MaxWindow
    /\ cache_ttl = DefaultCacheTtl
    /\ cache_maxsize = MaxCacheSize
    /\ oficial = 900
    /\ budget = MaxCommands
    /\ program = "bot.py"
    /\ startup = Started(program)
    /\ InitBot

NextSweep ==
    \/ \E t \in SweepTimes : JumpTo(t)
    \/ \E u \in Users : Receive(u, "ping", 0)
    \/ \E u \in Users : Receive(u, "rate_limits", 0)
    \/ OnCommand
    \/ PingCommand
    \/ RateLimitsCommand
    \/ CommandOnCooldown
    \/ Cleanup

SpecSweep == InitSweep /\ [][NextSweep]_vars

\* ------------------------------------------------------------ starting up
InitStartup ==
    /\ now = Epoch
    /\ program = "none"
    /\ startup \in {Starting(script, env) : script \in Scripts, env \in Environments}
    /\ rate_limit_commands = MaxLimit
    /\ rate_limit_window = MaxWindow
    /\ cache_ttl = DefaultCacheTtl
    /\ cache_maxsize = MaxCacheSize
    /\ oficial = 900
    /\ budget = MaxCommands
    /\ InitBot

NextStartup ==
    \/ RunCheck
    \/ StartDecide
    \/ BotLoad
    \/ BotMain

SpecStartup == InitStartup /\ [][NextStartup]_vars

\* ------------------------------------------------------------- the bot
Rates == {0, 900}
Amounts == {0, 100}
BotTimes == {Epoch + 30, Epoch + 299, Epoch + 300}
BotUsers == {1}

Init ==
    /\ now = Epoch
    /\ rate_limit_commands = 1
    /\ rate_limit_window = MaxWindow
    /\ cache_ttl = DefaultCacheTtl
    /\ cache_maxsize = MaxCacheSize
    /\ oficial \in Rates
    /\ budget = MaxCommands
    /\ program = "bot.py"
    /\ startup = Started(program)
    /\ InitBot

Next ==
    \/ \E t \in BotTimes : JumpTo(t)
    \/ \E u \in BotUsers : Receive(u, "cache_info", 0)
    \/ \E u \in BotUsers : Receive(u, "oficial", 0)
    \/ \E u \in BotUsers, cmd \in ConvertCommands, amount \in Amounts :
          Receive(u, cmd, amount)
    \/ OnCommand
    \/ CacheInfoCommand
    \/ CurrencyCommand
    \/ CommandOnCooldown
    \/ \E task \in sleeping : Resume(task)
    \/ Cleanup

Spec == Init /\ [][Next]_vars

\* ------------------------------------------------------------ the error log
ErrorTimes == {Epoch + 1}

InitErrors ==
    /\ now = Epoch
    /\ program \in ErrorLogPrograms
    /\ startup = Started(program)
    /\ rate_limit_commands = MaxLimit
    /\ rate_limit_window = MaxWindow
    /\ cache_ttl = DefaultCacheTtl
    /\ cache_maxsize = MaxCacheSize
    /\ oficial = 900
    /\ budget = MaxCommands
    /\ InitBot

NextErrors ==
    \/ \E t \in ErrorTimes : JumpTo(t)
    \/ \E u \in BotUsers : UnknownCommand(u)

SpecErrors == InitErrors /\ [][NextErrors]_vars

\* ------------------------------------------------ the single-file bots
\* discord_bot.py and telegram_bot.py answer a command from the library's
\* values alone: no validation, no cache, no limiter.
SingleFilePrograms == {"discord_bot.py", "telegram_bot.py"}

\* str() of a float, as the f-strings of the single-file bots print it
RawNumber(q) == <<"raw", q[1], q[2]>>

\* discord_bot.py:364, telegram_bot.py:199 -- f"${pesos:,.2f}"
FormatFixed(num, den) == <<"$", (200 * num + den) \div (2 * den)>>

\* discord_bot.py:308-342, telegram_bot.py:138-171 -- impuesto_pais_command
SingleFileImpuestoPais(cantidad, fails) ==
    IF fails \/ CalcularImpuestoPaisRaises(cantidad)
    THEN [kind |-> "error", embed |-> NoEmbed]
    ELSE LET resultado == CalcularImpuestoPais(cantidad)
         IN  [kind |-> "embed",
              embed |-> [title |-> "impuesto_pais",
                         fields |-> <<RawNumber(resultado.cantidadVieja),
                                      RawNumber(resultado.agregado),
                                      RawNumber(resultado.cantidadFinal)>>]]

\* discord_bot.py:344-372, telegram_bot.py:173-205 -- dolar_pesos_command
SingleFileDolarPesos(cantidad_usd) ==
    [kind |-> "embed",
     embed |-> [title |-> "dolar_pesos",
                fields |-> <<RawNumber(<<cantidad_usd, 1>>),
                             RawNumber(<<oficial, 1>>),
                             FormatFixed(oficial * cantidad_usd, 1)>>]]

\* telegram_bot.py:141-148, 176-183 -- no argument: the usage text
SingleFileReply(cmd, args, fails) ==
    IF args = <<>> THEN [kind |-> "usage", embed |-> NoEmbed]
    ELSE IF cmd = "impuesto_pais" THEN SingleFileImpuestoPais(args[1], fails)
    ELSE SingleFileDolarPesos(args[1])

SingleFileCommands == {"impuesto_pais", "dolar_pesos"}

\* a command handler of the single-file bot that is running; discord.py calls
\* the handler with the amount converted, python-telegram-bot with the words
\* after the command
SingleFileCommand(u, cmd, args) ==
    /\ program \in SingleFilePrograms
    /\ args = <<>> => program = "telegram_bot.py"
    /\ \E fails \in LibraryOutcomes(cmd) :
          LET reply == SingleFileReply(cmd, args, fails)
          IN  sent' = [NoMessageSent EXCEPT !.user = u, !.kind = reply.kind,
                                           !.embed = reply.embed,
                                           !.request = <<cmd, args>>]
    /\ UNCHANGED <<now, configVars, recent_errors, limiterVars, cogVars,
                   frameworkVars, apiVars, stats, inbound>>

\* ------------------------------------- conversions and the tax calculation
ConvertAmounts == {-5, 0, 50, 100}
\* the command messages the modular bot receives
ConvertRequests ==
    {<<"impuesto_pais", -5>>, <<"impuesto_pais", 0>>, <<"impuesto_pais", 100>>,
     <<"dolar_pesos", 0>>, <<"dolar_pesos", 50>>, <<"pesos_dolar", 100>>}
ConvertTimes == {Epoch + 30}
Programs == {"bot.py"} \cup SingleFilePrograms

InitConvert ==
    /\ now = Epoch
    /\ program \in Programs
    /\ startup = Started(program)
    /\ rate_limit_commands = MaxLimit
    /\ rate_limit_window = MaxWindow
    /\ cache_ttl = DefaultCacheTtl
    /\ cache_maxsize = MaxCacheSize
    /\ oficial \in Rates
    /\ budget = MaxCommands + 1
    /\ InitBot

NextConvert ==
    \/ \E t \in ConvertTimes : JumpTo(t)
    \/ \E u \in BotUsers, request \in ConvertRequests :
          program = "bot.py" /\ Receive(u, request[1], request[2])
    \/ OnCommand
    \/ CurrencyCommand
    \/ CommandOnCooldown
    \/ \E task \in sleeping : Resume(task)
    \/ \E u \in Users, cmd \in SingleFileCommands, amount \in ConvertAmounts :
          SingleFileCommand(u, cmd, <<amount>>)
    \/ \E u \in Users, cmd \in SingleFileCommands : SingleFileCommand(u, cmd, <<>>)

SpecConvert == InitConvert /\ [][NextConvert]_vars

\* ------------------------------------- entries that expire and are refreshed
\* the clock readings around the first and the second expiry of an entry
RefreshTimes == {Epoch + cache_duration, Epoch + cache_duration + api_cooldown,
                 Epoch + 2 * cache_duration - 1, Epoch + 2 * cache_duration}
RefreshRequests == {<<"oficial", 0>>, <<"dolar_pesos", 50>>}

InitRefresh ==
    /\ now = Epoch
    /\ rate_limit_commands = MaxLimit
    /\ rate_limit_window = MaxWindow
    /\ cache_ttl = DefaultCacheTtl
    /\ cache_maxsize = MaxCacheSize
    /\ oficial = 900
    /\ budget = MaxCommands + 1
    /\ program = "bot.py"
    /\ startup = Started(program)
    /\ InitBot

NextRefresh ==
    \/ \E t \in RefreshTimes : JumpTo(t)
    \/ \E u \in BotUsers, request \in RefreshRequests :
          Receive(u, request[1], request[2])
    \/ OnCommand
    \/ CurrencyCommand
    \/ CommandOnCooldown
    \/ \E task \in sleeping : Resume(task)

SpecRefresh == InitRefresh /\ [][NextRefresh]_vars

\* -------------------------------------------- the two caches on their own
CacheTimes == {Epoch + 299, Epoch + 300}

InitCaches ==
    /\ now = Epoch
    /\ rate_limit_commands = MaxLimit
    /\ rate_limit_window = MaxWindow
    /\ cache_ttl = DefaultCacheTtl
    /\ cache_maxsize \in 1..MaxCacheSize
    /\ oficial = 900
    /\ budget = MaxCommands
    /\ program = "bot.py"
    /\ startup = Started(program)
    /\ InitBot

NextCaches ==
    \/ \E t \in CacheTimes : JumpTo(t)
    \/ \E key \in CacheKeys, data \in CacheData : CallSetCache(key, data)
    \/ \E key \in CacheKeys : CallGetCache(key)
    \/ \E key \in CacheKeys, data \in CacheData : SetCachedData(key, data)
    \/ \E key \in CacheKeys : GetCachedData(key)

SpecCaches == InitCaches /\ [][NextCaches]_vars

\* ---------------------------------------------------------------- claims

\* the times at which check_rate_limit returned True for u, with repetitions
GrantTimes(u) == SelectSeq(calls[u], LAMBDA c : c[2])

\* on_command runs check_rate_limit in this step
AllowStep == inbound.gate = "pending" /\ inbound'.gate # "pending"

\* C1: for every caller and every window [a, a + rate_limit_window), the number
\* of check_rate_limit calls that returned True at a time inside the window never
\* exceeds rate_limit_commands.
C1_SlidingWindowBound ==
    \A u \in Users : \A a \in (Epoch - MaxWindow)..(Epoch + MaxTime) :
        Cardinality({i \in DOMAIN GrantTimes(u) :
                        /\ a <= GrantTimes(u)[i][1]
                        /\ GrantTimes(u)[i][1] < a + rate_limit_window})
            <= rate_limit_commands

\* a caller was throttled and, overall, was granted more than rate_limit_commands
\* calls (the window slid)
C1_Witness ==
    /\ rate_limit_commands >= 1
    /\ \E u \in Users :
          /\ \E i \in DOMAIN calls[u] : ~calls[u][i][2]
          /\ Len(GrantTimes(u)) > rate_limit_commands

\* C2: check_rate_limit returns True exactly when fewer than rate_limit_commands
\* of the caller's stored timestamps t satisfy now - t < rate_limit_window; with
\* rate_limit_commands = 0 it never does, and with no stored events and a limit
\* of at least 1 it always does.
C2_AllowIffUnderLimit ==
    [][AllowStep =>
        LET stored == Entry(rate_limits, inbound.user)
            live   == {i \in DOMAIN stored : now - stored[i] < rate_limit_window}
        IN  /\ (inbound'.gate = "allowed") <=> (Cardinality(live) < rate_limit_commands)
            /\ (inbound'.gate = "throttled") <=> (Cardinality(live) >= rate_limit_commands)
            /\ rate_limit_commands = 0 => inbound'.gate = "throttled"
            /\ (stored = <<>> /\ rate_limit_commands >= 1) => inbound'.gate = "allowed"
    ]_vars

\* a call was allowed although the caller's list held rate_limit_commands
\* timestamps before it: one of them was stale
C2_Witness ==
    /\ inbound.gate = "allowed"
    /\ rate_limit_commands >= 1
    /\ inbound.user \in Users
    /\ Len(calls[inbound.user]) > rate_limit_commands
    /\ calls[inbound.user][Len(calls[inbound.user])] = <<now, TRUE>>
    /\ \E i \in DOMAIN calls[inbound.user] : ~calls[inbound.user][i][2]

\* C3: a throttled call does not record now: the caller's list afterwards is the
\* list before with exactly the out-of-window timestamps removed.
C3_ThrottledNotRecorded ==
    [][(AllowStep /\ inbound'.gate = "throttled") =>
        LET stored == Entry(rate_limits, inbound.user)
        IN  /\ inbound.user \in DOMAIN rate_limits'
            /\ rate_limits'[inbound.user] =
                   SelectSeq(stored, LAMBDA t : now - t < rate_limit_window)
            /\ Len(rate_limits'[inbound.user]) <= Len(stored)
    ]_vars

\* a caller with a non-empty list was throttled at a time later than its last
\* stored timestamp
C3_Witness ==
    /\ inbound.gate = "throttled"
    /\ inbound.user \in DOMAIN rate_limits
    /\ rate_limits[inbound.user] # <<>>
    /\ rate_limits[inbound.user][Len(rate_limits[inbound.user])] < now
    /\ calls[inbound.user][Len(calls[inbound.user])] = <<now, FALSE>>

\* C4: check_rate_limit for one caller leaves every other caller's list alone,
\* and every caller's list and results are those of a limiter that never saw the
\* other callers' calls.
C4_CallersIndependent ==
    /\ [](\A u \in Users :
            /\ (u \in DOMAIN rate_limits) <=> (u \in DOMAIN solo[u])
            /\ Entry(rate_limits, u) = Entry(solo[u], u))
    /\ [](inbound.gate = inbound.soloGate)
    /\ [][AllowStep =>
            \A b \in Users \ {inbound.user} :
                /\ (b \in DOMAIN rate_limits') <=> (b \in DOMAIN rate_limits)
                /\ Entry(rate_limits', b) = Entry(rate_limits, b)]_vars

\* a caller is allowed while another caller is at its limit
C4_Witness ==
    /\ inbound.gate = "allowed"
    /\ rate_limit_commands >= 1
    /\ \E a \in Users \ {inbound.user} :
          /\ a \in DOMAIN rate_limits
          /\ Len(Pruned(rate_limits[a], now)) >= rate_limit_commands
          /\ \E i \in DOMAIN calls[a] : ~calls[a][i][2]


\* C5: sliding semantics.  With a limit of 3 per 60 s, a caller whose calls are
\* made at 0, 1, 2, 3, 61 gets True, True, True, False, True; in general a caller
\* at capacity is allowed again as soon as its oldest stored timestamp is out of
\* the window, and every stale timestamp frees exactly one place.
C5_SlidingScenario ==
    /\ [](\A u \in Users : \A k \in DOMAIN calls[u] :
            (/\ k <= Len(ScenarioCalls)
             /\ \A j \in 1..k : calls[u][j][1] = ScenarioCalls[j][1])
            => calls[u][k][2] = ScenarioCalls[k][2])
    /\ [][AllowStep =>
            LET stored == Entry(rate_limits, inbound.user)
                stale  == {i \in DOMAIN stored : now - stored[i] >= rate_limit_window}
                free   == rate_limit_commands - (Len(stored) - Cardinality(stale))
            IN  /\ (/\ Len(stored) = rate_limit_commands
                     /\ now - stored[1] >= rate_limit_window)
                    => inbound'.gate = "allowed"
                /\ (inbound'.gate = "allowed") <=> (free >= 1)
                /\ Len(rate_limits'[inbound.user]) =
                      Len(stored) - Cardinality(stale)
                        + (IF inbound'.gate = "allowed" THEN 1 ELSE 0)
       ]_vars

\* one caller made exactly the calls of the scenario
C5_Witness ==
    \E u \in Users : calls[u] = ScenarioCalls


\* the command callback of the message in hand has run, wholly or up to its wait
BodyRan == inbound.body \in {"ran", "rejected", "hit", "miss", "waiting"}

\* C6: the rate limiter gates command processing: the callback of a message
\* (cache lookup, fetch, response) runs only if check_rate_limit returned True
\* for that message; a throttled message gets the throttle notice and nothing else.
C6_GateBeforeBody ==
    inbound.gate = "throttled" => ~BodyRan

\* C7: a value stored under a key is what a get of that key returns while the
\* entry is younger than the ttl and was not evicted, in the cog's cache
\* (_set_cache/_get_cache) and in api_cache (set_cached_data/get_cached_data);
\* a key never stored reads as absent.
C7_RoundTrip ==
    /\ [](\A k \in CacheKeys :
            /\ k \notin DOMAIN cogPuts => GetCache(cached_data, k, now) = NoEmbed
            /\ (k \in DOMAIN cogPuts /\ now - cogPuts[k][1] < cache_duration)
                  => GetCache(cached_data, k, now) = cogPuts[k][2]
            /\ k \notin DOMAIN apiPuts
                  => GetCachedDataValue(api_cache, k, now) = NoEmbed
            /\ (/\ k \in DOMAIN apiPuts
                 /\ now - apiPuts[k].time < cache_ttl
                 /\ ~apiPuts[k].evicted)
                  => GetCachedDataValue(api_cache, k, now) = apiPuts[k].value)
    /\ [][\A k \in CacheKeys :
            /\ CallGetCache(k) =>
                  /\ k \notin DOMAIN cogPuts => got' = NoEmbed
                  /\ (k \in DOMAIN cogPuts /\ now - cogPuts[k][1] < cache_duration)
                        => got' = cogPuts[k][2]
            /\ GetCachedData(k) =>
                  /\ k \notin DOMAIN apiPuts => got' = NoEmbed
                  /\ (/\ k \in DOMAIN apiPuts
                       /\ now - apiPuts[k].time < cache_ttl
                       /\ ~apiPuts[k].evicted)
                        => got' = apiPuts[k].value]_vars

\* in each cache a key stored earlier is still young; the last get returned the
\* cog's value, api_cache had a hit and also lost a key to eviction
C7_Witness ==
    /\ \E k \in DOMAIN cogPuts :
          /\ cogPuts[k][1] < now
          /\ now - cogPuts[k][1] < cache_duration
          /\ got = cogPuts[k][2]
    /\ \E k \in DOMAIN apiPuts :
          /\ apiPuts[k].time < now
          /\ now - apiPuts[k].time < cache_ttl
          /\ ~apiPuts[k].evicted
          /\ stats.cache_hits >= 1
    /\ \E k \in DOMAIN apiPuts : apiPuts[k].evicted

\* a currency command looks its key up in this step
LookupStep ==
    /\ inbound.body = "pending"
    /\ inbound'.body \in {"hit", "miss", "waiting"}

InboundKey == GetCacheKey(inbound.cmd, KeyArgs(inbound.cmd, inbound.amount))

\* C8: an entry stored at t is returned only while now - t < cache_duration; from
\* now = t + cache_duration on the get reports absent, the command counts a miss
\* and recomputes, and a cached response that is sent is younger than the ttl.
C8_ExpiredIsAbsent ==
    /\ [](\A k \in DOMAIN cached_data :
            (GetCache(cached_data, k, now) # NoEmbed)
               <=> (now - cached_data[k][1] < cache_duration))
    /\ [][LookupStep =>
            /\ (/\ InboundKey \in DOMAIN cached_data
                 /\ now - cached_data[InboundKey][1] >= cache_duration)
                => /\ inbound'.body \in {"miss", "waiting"}
                   /\ stats'.cache_misses = stats.cache_misses + 1
                   /\ stats'.cache_hits = stats.cache_hits
            /\ inbound'.body = "hit"
                => /\ sent'.hit
                   /\ sent'.embed = cached_data[InboundKey][2]
                   /\ now' - sent'.stored_at < cache_duration
                   /\ now' - sent'.embed.timestamp < cache_duration]_vars

\* a command missed on an entry that is exactly cache_duration old
C8_Witness ==
    /\ inbound.body = "waiting"
    /\ InboundKey \in DOMAIN cached_data
    /\ now - cached_data[InboundKey][1] = cache_duration
    /\ stats.cache_misses >= 2

\* C9: the result cache never holds more than maxEntries entries, the cog's
\* cached_data as well as api_cache.
C9_CacheBounded ==
    /\ Cardinality(DOMAIN cached_data) <= cache_maxsize
    /\ Len(api_cache) <= cache_maxsize

\* cached_data without the entries that are expired at t
LiveEntries(cache, t) ==
    [k \in {j \in DOMAIN cache : t - cache[j][1] < cache_duration} |-> cache[k]]

\* cache_info_command answers in this step
CacheInfoStep ==
    /\ inbound.cmd = "cache_info"
    /\ inbound.body = "pending"
    /\ inbound'.body = "ran"

\* C10: expired entries are indistinguishable from absent ones: whenever a
\* command runs, a get of any key gives what it gives with the expired entries
\* of cached_data removed, and the report cache_info sends (entry count, time
\* of the newest entry) is the report of cached_data without its expired entries.
C10_ExpiredIndistinguishable ==
    [][/\ \A k \in DOMAIN cached_data :
            GetCache(cached_data, k, now)
               = GetCache(LiveEntries(cached_data, now), k, now)
       /\ CacheInfoStep =>
            sent'.embed = CacheInfoReport(LiveEntries(cached_data, now), stats)
      ]_vars

\* a currency command gets past _rate_limit_api in this step: at once, or when
\* its wait is over
FinishStep ==
    \/ inbound.body = "pending" /\ inbound'.body = "miss"
    \/ \E task \in sleeping : sleeping' = sleeping \ {task}

\* C11: a failed call is never cached: when the call of a currency command
\* raises, cached_data is what it was, the user gets the error message and no
\* embed; what the cache holds is what successful calls stored, and a get of a
\* key stored by a successful call still returns it while it is young.
C11_FailedFetchNotCached ==
    /\ [][(FinishStep /\ sent'.kind = "error")
             => (cached_data' = cached_data /\ sent'.embed = NoEmbed)]_vars
    /\ [][(FinishStep /\ sent'.kind # "error")
             => /\ sent'.kind = "embed"
                /\ \E k \in DOMAIN cached_data' :
                      cached_data'[k] = <<now, sent'.embed>>]_vars
    /\ [](/\ DOMAIN cached_data = DOMAIN cogPuts
          /\ \A k \in DOMAIN cached_data :
                /\ cached_data[k] = cogPuts[k]
                /\ oficial = 0 => k[1] # "pesos_dolar"
                /\ now - cogPuts[k][1] < cache_duration
                      => GetCache(cached_data, k, now) = cogPuts[k][2])

\* the library call of impuesto_pais 100 raised while the cache held the embed
\* of an earlier command, which a get still returns
C11_Witness ==
    /\ inbound.cmd = "impuesto_pais"
    /\ inbound.amount = 100
    /\ inbound.body \in {"miss", "waiting"}
    /\ sent.kind = "error"
    /\ InboundKey \notin DOMAIN cached_data
    /\ \E k \in DOMAIN cached_data : GetCache(cached_data, k, now) = cogPuts[k][2]

\* the commands whose response is derived from the rate
RateDerivedCommands == RateCommands \cup ConvertCommands

\* C12: no response derived from a zero rate is stored: with a rate of 0 a
\* command that uses the rate leaves cached_data as it was, so cached_data never
\* holds an entry of such a command.
C12_ZeroRateNotCached ==
    oficial = 0 =>
        \A k \in DOMAIN cached_data : k[1] \notin RateDerivedCommands

\* what the division by a zero rate leaves behind: the error message and no
\* embed, one counted call, nothing waiting to try again, the cache as it was
ZeroDivisionOutcome ==
    /\ sent'.kind = "error"
    /\ sent'.embed = NoEmbed
    /\ stats'.api_calls = stats.api_calls + 1
    /\ sleeping' \subseteq sleeping
    /\ cached_data' = cached_data

\* C13: with a rate of 0 the ARS->USD conversion fails with a division by zero
\* for every amount the command accepts: pesos_dolar sends the error message,
\* no conversion result, and does not fetch again.
C13_ZeroRateDivision ==
    [][oficial = 0 =>
         /\ (/\ inbound.cmd = "pesos_dolar"
             /\ inbound.body = "pending"
             /\ inbound'.body = "miss") => ZeroDivisionOutcome
         /\ \A task \in sleeping :
               (task.cmd = "pesos_dolar" /\ sleeping' = sleeping \ {task})
                  => ZeroDivisionOutcome]_vars

\* pesos_dolar 100 went through to the division with a rate of 0
C13_Witness ==
    /\ oficial = 0
    /\ inbound.cmd = "pesos_dolar"
    /\ inbound.amount = 100
    /\ inbound.body = "miss"
    /\ sent.kind = "error"
    /\ stats.api_calls >= 1

\* the last message is the USD->ARS answer of the running bot
DolarPesosSent == sent.kind = "embed" /\ sent.embed.title = "dolar_pesos"

\* C14: the USD->ARS result is exactly amount * rate, shown in hundredths: in
\* the modular bot (N/A stands for a result of 0) and in the single-file bots,
\* with the rate the answer itself shows; 50 USD at 900 gives 45000.00.
C14_ToLocalIsProduct ==
    /\ (program = "bot.py" /\ DolarPesosSent) =>
          LET fields == sent.embed.fields
          IN  /\ fields[1][1] = "$" /\ fields[1][2] > 0
              /\ fields[2] = (IF oficial = 0 THEN <<"N/A">> ELSE <<"$", 100 * oficial>>)
              /\ fields[3] = (IF oficial = 0 THEN <<"N/A">>
                              ELSE <<"$", fields[1][2] * oficial>>)
              /\ (oficial = 900 /\ fields[1] = <<"$", 5000>>)
                    => fields[3] = <<"$", 4500000>>
    /\ (program \in SingleFilePrograms /\ DolarPesosSent) =>
          LET fields == sent.embed.fields
              cantidad_usd == sent.request[2][1]
          IN  /\ fields[1] = <<"raw", cantidad_usd, 1>>
              /\ fields[2] = <<"raw", oficial, 1>>
              /\ fields[3] = <<"$", 100 * cantidad_usd * oficial>>
              /\ (oficial = 900 /\ cantidad_usd = 50) => fields[3] = <<"$", 4500000>>

\* the modular bot answered dolar_pesos 50 at a rate of 900 from its cache
C14_Witness ==
    /\ program = "bot.py"
    /\ startup = Started(program)
    /\ oficial = 900
    /\ DolarPesosSent
    /\ sent.embed.fields[1] = <<"$", 5000>>
    /\ sent.hit

\* the last message is the tax answer of the running bot
TaxSent == sent.kind = "embed" /\ sent.embed.title = "impuesto_pais"

\* C15: the tax answer shows originalAmount = the amount, addedTax = amount * 0.30
\* and finalAmount = originalAmount + addedTax, in the modular bot (hundredths)
\* and in the single-file bots (the library's values as they are); for 100 it
\* shows 100, 30 and 130.
C15_TaxResult ==
    /\ (program = "bot.py" /\ TaxSent) =>
          LET fields == sent.embed.fields
          IN  /\ fields[1][1] = "$" /\ fields[2][1] = "$" /\ fields[3][1] = "$"
              /\ 100 * fields[2][2] = TaxPercent * fields[1][2]
              /\ fields[3][2] = fields[1][2] + fields[2][2]
              /\ fields[1] = <<"$", 10000>>
                    => (fields[2] = <<"$", 3000>> /\ fields[3] = <<"$", 13000>>)
    /\ (program \in SingleFilePrograms /\ TaxSent) =>
          LET fields == sent.embed.fields
              cantidad == sent.request[2][1]
          IN  /\ fields[1] = <<"raw", cantidad, 1>>
              /\ fields[2] = <<"raw", 30 * cantidad, 100>>
              /\ fields[3] = <<"raw", 130 * cantidad, 100>>
              /\ cantidad >= 0

\* the modular bot answered impuesto_pais 100
C15_Witness ==
    /\ program = "bot.py"
    /\ startup = Started(program)
    /\ TaxSent
    /\ inbound.cmd = "impuesto_pais"
    /\ inbound.amount = 100
    /\ sent.embed.fields[1] = <<"$", 10000>>

\* the modular bot deals with a tax command for a negative amount in this step
NegativeTaxStep ==
    /\ inbound.cmd = "impuesto_pais"
    /\ inbound.amount < 0
    /\ inbound.body = "pending"
    /\ inbound'.body # "pending"

ZeroTaxStep ==
    /\ inbound.cmd = "impuesto_pais"
    /\ inbound.amount = 0
    /\ inbound.body = "pending"
    /\ inbound'.body \notin {"pending", "cooldown"}

\* C19: an amount of exactly 0 is a valid amount: the tax command does not turn
\* it away as invalid, it goes on to the calculation.
C19_ZeroAmountAccepted ==
    [][ZeroTaxStep =>
          /\ inbound'.body # "rejected"
          /\ sent'.kind # "invalid"]_vars

\* C18: every caller's stored list is ordered by time (non-decreasing), after
\* check_rate_limit and after the sweep alike, and its last element is the time
\* of the caller's most recent allowed call.
C18_TimestampsOrdered ==
    \A u \in DOMAIN rate_limits :
        /\ \A i, j \in DOMAIN rate_limits[u] :
              i < j => rate_limits[u][i] <= rate_limits[u][j]
        /\ rate_limits[u] # <<>> =>
              /\ GrantTimes(u) # <<>>
              /\ rate_limits[u][Len(rate_limits[u])]
                    = GrantTimes(u)[Len(GrantTimes(u))][1]

\* a list holds two different times after an older one was pruned from it
C18_Witness ==
    \E u \in DOMAIN rate_limits :
        /\ Len(rate_limits[u]) = 2
        /\ rate_limits[u][1] < rate_limits[u][2]
        /\ Len(GrantTimes(u)) >= 3

\* cleanup_tasks changes rate_limits in this step
SweepStep == rate_limits' # rate_limits /\ inbound' = inbound

\* C20: the sweep is transparent: every check_rate_limit result is the result
\* of a limiter on which cleanup_tasks never ran, the live timestamps of every
\* caller are the same with and without the sweep, and a sweep removes stale
\* timestamps and callers left with an empty list, nothing else.
C20_SweepTransparent ==
    /\ [][AllowStep =>
            inbound'.gate = GateOf(RateLimitAllowed(unswept, inbound.user, now))]_vars
    /\ [](\A u \in Users :
            Pruned(Entry(rate_limits, u), now) = Pruned(Entry(unswept, u), now))
    /\ [][SweepStep =>
            /\ DOMAIN rate_limits' \subseteq DOMAIN rate_limits
            /\ \A u \in DOMAIN rate_limits :
                  /\ Entry(rate_limits', u)
                        = SelectSeq(rate_limits[u],
                                    LAMBDA t : now - t < rate_limit_window)
                  /\ (u \in DOMAIN rate_limits') <=> (Entry(rate_limits', u) # <<>>)
       ]_vars

\* a call was decided after a sweep had removed another caller, whose stale
\* timestamps the never-swept limiter still holds
C20_Witness ==
    /\ inbound.gate \in {"allowed", "throttled"}
    /\ inbound.user \in Users
    /\ calls[inbound.user] # <<>>
    /\ calls[inbound.user][Len(calls[inbound.user])][1] = now
    /\ \E u \in DOMAIN unswept : u \notin DOMAIN rate_limits /\ unswept[u] # <<>>
    /\ \E i \in DOMAIN calls[inbound.user] : ~calls[inbound.user][i][2]

\* rate_limits_command answers in this step
RateLimitsStep ==
    /\ inbound.cmd = "rate_limits"
    /\ inbound.body = "pending"
    /\ inbound'.body = "ran"

\* every timestamp of limits is inside the window at t
AllFresh(limits, t) ==
    \A u \in DOMAIN limits : \A i \in DOMAIN limits[u] :
        t - limits[u][i] < rate_limit_window

\* C17: a reader of the stored timestamps never observes a stale one: the list
\* check_rate_limit decides on and leaves behind, the lists the sweep leaves
\* behind, and the lists the rate_limits report counts and takes the last
\* command time from hold only timestamps t with now - t < rate_limit_window.
C17_ReadersSeeFresh ==
    [][/\ AllowStep =>
            \A i \in DOMAIN rate_limits'[inbound.user] :
                now - rate_limits'[inbound.user][i] < rate_limit_window
       /\ SweepStep => AllFresh(rate_limits', now)
       /\ RateLimitsStep => AllFresh(rate_limits, now)]_vars

\* cleanup_tasks changes rate_limits or the error log in this step
CleanupStep ==
    /\ inbound' = inbound
    /\ now' = now
    /\ rate_limits' # rate_limits \/ recent_errors' # recent_errors

\* C21: the sweep is idempotent: a second cleanup_tasks at the same time leaves
\* rate_limits and the error log as the first one left them, and after a sweep
\* no caller with an empty list is in rate_limits and every timestamp that is
\* left is inside the window.
C21_SweepIdempotent ==
    /\ [](/\ Swept(Swept(rate_limits, now), now) = Swept(rate_limits, now)
          /\ SweptErrors(SweptErrors(recent_errors, now), now)
                = SweptErrors(recent_errors, now))
    /\ [][CleanupStep =>
            /\ Swept(rate_limits', now) = rate_limits'
            /\ SweptErrors(recent_errors', now) = recent_errors'
            /\ \A u \in DOMAIN rate_limits' : rate_limits'[u] # <<>>
            /\ AllFresh(rate_limits', now)]_vars

\* a sweep has removed a caller whose timestamps were stale and an error older
\* than the retention, and has kept a caller with a timestamp in the window
C21_Witness ==
    /\ \E u \in DOMAIN unswept : u \notin DOMAIN rate_limits /\ unswept[u] # <<>>
    /\ \E u \in DOMAIN rate_limits : Pruned(rate_limits[u], now) # <<>>
    /\ stats.errors_occurred >= 1
    /\ recent_errors = <<>>

\* the times of u's allowed calls that are inside the window, in call order
GrantedInWindow(u) ==
    LET live == SelectSeq(GrantTimes(u), LAMBDA c : InWindow(now, c[1]))
    IN  [i \in 1..Len(live) |-> live[i][1]]

\* C22: on_command's check_rate_limit and cleanup_tasks have no await inside,
\* so each acts on rate_limits in one step however the requests and the sweep
\* interleave: no allowed call is lost (the in-window timestamps of a caller are
\* exactly its allowed calls inside the window), no caller holds more than
\* rate_limit_commands of them, and the sweep deletes no caller that holds an
\* in-window timestamp.
C22_AtomicAllowAndSweep ==
    /\ [](\A u \in Users :
            /\ Pruned(Entry(rate_limits, u), now) = GrantedInWindow(u)
            /\ Len(GrantedInWindow(u)) <= rate_limit_commands)
    /\ [][(AllowStep /\ inbound'.gate = "allowed") =>
                /\ inbound.user \in DOMAIN rate_limits'
                /\ rate_limits'[inbound.user]
                      = Append(Pruned(Entry(rate_limits, inbound.user), now), now)]_vars
    /\ [][SweepStep =>
            \A u \in (DOMAIN rate_limits) \ (DOMAIN rate_limits') :
                Pruned(rate_limits[u], now) = <<>>]_vars

\* a caller at its limit was throttled after a sweep had removed the other
\* caller, and still holds all its allowed calls of the window
C22_Witness ==
    /\ rate_limit_commands >= 1
    /\ \E u \in Users :
          /\ calls[u] # <<>>
          /\ calls[u][Len(calls[u])] = <<now, FALSE>>
          /\ Len(Entry(rate_limits, u)) = rate_limit_commands
          /\ \E v \in Users \ {u} :
                /\ Len(calls[v]) >= 1
                /\ v \notin DOMAIN rate_limits

\* the key holds an entry that has expired
Expired(cache, key, t) ==
    key \in DOMAIN cache /\ t - cache[key][1] >= cache_duration

\* the cache key of a suspended invocation
TaskKey(task) == GetCacheKey(task.cmd, KeyArgs(task.cmd, task.amount))

\* C23: once the entry of a key has expired, the next command for that key
\* misses and recomputes; the recomputed response overwrites the entry with
\* storedAt = the time of the recomputation, and a command that then hits on the
\* key gets the response stored last, stored less than cache_duration ago, never
\* the one that had expired.
C23_RefreshAfterExpiry ==
    /\ [][(LookupStep /\ Expired(cached_data, InboundKey, now)) =>
            /\ inbound'.body \in {"miss", "waiting"}
            /\ stats'.cache_misses = stats.cache_misses + 1
            /\ (inbound'.body = "miss" /\ sent'.kind = "embed") =>
                  /\ cached_data'[InboundKey]
                        = <<now, BuildEmbed(inbound.cmd, inbound.amount, now)>>
                  /\ cached_data'[InboundKey] # cached_data[InboundKey]
                  /\ sent'.embed = cached_data'[InboundKey][2]]_vars
    /\ [][\A task \in sleeping :
            (sleeping' = sleeping \ {task} /\ sent'.kind = "embed") =>
                /\ cached_data'[TaskKey(task)]
                      = <<now, BuildEmbed(task.cmd, task.amount, now)>>
                /\ Expired(cached_data, TaskKey(task), now) =>
                      cached_data'[TaskKey(task)] # cached_data[TaskKey(task)]]_vars
    /\ [][(LookupStep /\ inbound'.body = "hit") =>
            /\ sent'.embed = cogPuts[InboundKey][2]
            /\ sent'.stored_at = cogPuts[InboundKey][1]
            /\ sent'.embed.timestamp = sent'.stored_at
            /\ now - sent'.stored_at < cache_duration]_vars

\* a command hit, some time after the recomputation, on an entry that was
\* recomputed when the first one had expired
C23_Witness ==
    /\ inbound.body = "hit"
    /\ sent.hit
    /\ sent.stored_at >= Epoch + cache_duration
    /\ sent.stored_at < now
    /\ sent.embed.timestamp = sent.stored_at
    /\ stats.cache_misses = 2
    /\ DOMAIN cached_data = {InboundKey}

\* a currency command gets past its validation in this step
ValidatedStep ==
    /\ inbound.cmd \in CurrencyCommandNames
    /\ inbound.body = "pending"
    /\ inbound'.body \notin {"pending", "cooldown", "rejected"}

\* C24: a hit avoids the fetch: when the key of a command holds an entry younger
\* than cache_duration, the command sends the stored response and counts a hit;
\* it makes no upstream call (api_calls and last_api_call stay, nothing waits)
\* and leaves every entry of cached_data, value and time, as it was.
C24_HitAvoidsFetch ==
    [][(/\ ValidatedStep
        /\ InboundKey \in DOMAIN cached_data
        /\ now - cached_data[InboundKey][1] < cache_duration) =>
          /\ inbound'.body = "hit"
          /\ sent'.kind = "embed"
          /\ sent'.embed = cached_data[InboundKey][2]
          /\ stats'.api_calls = stats.api_calls
          /\ stats'.cache_hits = stats.cache_hits + 1
          /\ stats'.cache_misses = stats.cache_misses
          /\ UNCHANGED <<cached_data, last_api_call, sleeping>>]_vars

\* a command was answered from an entry stored earlier, after one upstream call
C24_Witness ==
    /\ inbound.body = "hit"
    /\ sent.hit
    /\ sent.stored_at < now
    /\ stats.cache_hits = 2
    /\ stats.api_calls = 1
    /\ cached_data[InboundKey] = <<sent.stored_at, sent.embed>>

\* the times of the upstream calls whose result was stored: _set_cache follows
\* the call without a suspension in between
UpstreamCallTimes == {cogPuts[k][1] : k \in DOMAIN cogPuts}

\* C25: upstream calls are at least api_cooldown apart: whenever a command gets
\* past _rate_limit_api and makes its call, every earlier call was made at
\* least api_cooldown seconds before.
C25_ApiCallsSpaced ==
    [][FinishStep => \A t \in UpstreamCallTimes : now - t >= api_cooldown]_vars

\* on_command_error logs an error in this step
ErrorStep == stats'.errors_occurred = stats.errors_occurred + 1

\* C26: the log of recent errors is a bounded queue: it never holds more than
\* its capacity (50 in bot.py, 10 in the single-file Discord bots), the error
\* just added is its last element, the errors are in order of arrival, and when
\* the log is full the oldest error is the one that goes.
C26_ErrorLogBoundedFifo ==
    /\ [](/\ Len(recent_errors) <= max_error_log
          /\ max_error_log = (IF program = "bot.py" THEN 50 ELSE 10)
          /\ \A i, j \in DOMAIN recent_errors :
                i < j => recent_errors[i].timestamp <= recent_errors[j].timestamp)
    /\ [][ErrorStep =>
            /\ recent_errors' # <<>>
            /\ recent_errors'[Len(recent_errors')].timestamp = now
            /\ IF Len(recent_errors) < max_error_log
               THEN SubSeq(recent_errors', 1, Len(recent_errors')-1) = recent_errors
               ELSE SubSeq(recent_errors', 1, Len(recent_errors')-1)
                        = Tail(recent_errors)]_vars

\* the log is full, more errors arrived than it holds, and it holds errors of
\* two different times: the old ones went first
C26_Witness ==
    /\ Len(recent_errors) = max_error_log
    /\ stats.errors_occurred > max_error_log
    /\ recent_errors[1].timestamp < now
    /\ recent_errors[Len(recent_errors)].timestamp = now

\* what start.py requires of the machine: the four checks
Preconditions(env) ==
    /\ env.python_ok
    /\ env.missing \cap RequiredPackages = {}
    /\ env.env_file
    /\ env.token = "set"
    /\ env.bot_file

\* C27: the bot is never started when a precondition of its startup fails:
\* start.py runs all four checks, launches bot.py only if every one passed and
\* otherwise ends with status 1 without launching; and the main of each bot
\* returns without calling bot.run when DISCORD_BOT_TOKEN is not set.
C27_NoStartOnFailedPrecondition ==
    /\ (startup.script = "start.py" /\ startup.pc # "check")
          => startup.checks_run = checks
    /\ startup.launched => Preconditions(startup.env)
    /\ (/\ startup.script = "start.py"
        /\ startup.pc \notin {"check", "decide"}
        /\ ~Preconditions(startup.env))
          => (startup.exit_status = 1 /\ ~startup.launched /\ program = "none")
    /\ program # "none" => startup.env.token = "set"
    /\ (startup.pc = "bot_main" /\ startup.env.token # "set") => program = "none"

\* the validation of a currency command turns the amount away in this step
RejectedStep ==
    /\ inbound.cmd \in CurrencyCommandNames
    /\ inbound.body = "pending"
    /\ inbound'.body = "rejected"

\* the lookups counted so far
Lookups(st) == st.cache_hits + st.cache_misses

\* C28: cache accounting is exact: a currency command that passes its
\* validation counts exactly one hit or one miss at its lookup, no other step
\* of any invocation (a wait that ends, a failed call, a cooldown, on_command,
\* the sweep) touches the two counters, and a rejected command leaves the
\* counters and the cache as they were; so hits + misses is the number of
\* validated invocations, each of which was answered, is waiting, or failed.
C28_CacheAccountingExact ==
    /\ [][ValidatedStep =>
            /\ Lookups(stats') = Lookups(stats) + 1
            /\ \/ /\ stats'.cache_hits = stats.cache_hits + 1
                  /\ stats'.cache_misses = stats.cache_misses
                  /\ inbound'.body = "hit"
               \/ /\ stats'.cache_misses = stats.cache_misses + 1
                  /\ stats'.cache_hits = stats.cache_hits
                  /\ inbound'.body \in {"miss", "waiting"}]_vars
    /\ [][~ValidatedStep =>
            /\ stats'.cache_hits = stats.cache_hits
            /\ stats'.cache_misses = stats.cache_misses]_vars
    /\ [][RejectedStep =>
            /\ Lookups(stats') = Lookups(stats)
            /\ cached_data' = cached_data
            /\ sent'.kind = "invalid"]_vars
    /\ [](stats.cache_misses = stats.api_calls + Cardinality(sleeping))

\* after a rejected command, a hit, a miss that waited and a miss that did not
C28_Witness ==
    /\ program = "bot.py"
    /\ inbound.body = "rejected"
    /\ stats.cache_hits >= 1
    /\ stats.cache_misses >= 2
    /\ stats.api_calls >= 2
    /\ Lookups(stats) = stats.commands_executed - 1

\* C29: with rate_limit_commands >= 1 every caller in rate_limits has a
\* non-empty list, whatever check_rate_limit calls and sweeps came before, so
\* timestamps[-1] in the rate_limits report is defined for every caller it
\* lists and the report is sent, not the error message.
C29_ListedCallersNonEmpty ==
    /\ [](rate_limit_commands >= 1 =>
            /\ \A u \in DOMAIN rate_limits : rate_limits[u] # <<>>
            /\ ~RateLimitsReportRaises(rate_limits))
    /\ [][(rate_limit_commands >= 1 /\ RateLimitsStep) =>
            /\ sent'.kind = "rate_limits"
            /\ sent'.embed = RateLimitsReport(rate_limits)
            /\ sent'.embed.title = "rate_limits" =>
                  \A u \in DOMAIN sent'.embed.fields :
                      sent'.embed.fields[u][1] >= 1]_vars

\* the report listed a caller that holds only a stale timestamp, after a call
\* of that caller was throttled
C29_Witness ==
    /\ rate_limit_commands >= 1
    /\ sent.kind = "rate_limits"
    /\ sent.embed.title = "rate_limits"
    /\ inbound.body = "ran"
    /\ \E u \in DOMAIN rate_limits :
          /\ Pruned(rate_limits[u], now) = <<>>
          /\ u \in DOMAIN sent.embed.fields
          /\ \E i \in DOMAIN calls[u] : ~calls[u][i][2]

\* a command's upstream call is made in this step for the key
FetchStepFor(key) ==
    \/ /\ inbound.body = "pending"
       /\ inbound'.body = "miss"
       /\ InboundKey = key
    \/ \E task \in sleeping : sleeping' = sleeping \ {task} /\ TaskKey(task) = key

\* C30: at most one upstream call per key and validity period: once an
\* invocation has missed on a key and is computing its response, no other
\* invocation makes its own call for that key before the entry is stored and
\* has expired; so a call for a key is made only when no call for that key
\* stored an entry less than cache_duration ago, and never while another
\* invocation for the key is still waiting to make its call.
C30_SingleFetchPerKey ==
    [][\A key \in {InboundKey} \cup {TaskKey(task) : task \in sleeping} :
          FetchStepFor(key) =>
             /\ key \in DOMAIN cogPuts => now - cogPuts[key][1] >= cache_duration
             /\ \A other \in sleeping' : TaskKey(other) # key]_vars

=============================================================================
